---- MODULE Spec2Model ----
(***************************************************************************)
(* Model of the Holmarc EM-series electromagnet controller                 *)
(* (src/HolmarcMagnet.py, class controller).                               *)
(*                                                                         *)
(* The controller drives the device through two straight-line handshake    *)
(* scripts over a byte transport (self.inst): the START sequence of        *)
(* _run_start_sequence and the STOP/QUERY sequence of                      *)
(* stop_and_query_field.  Every transport operation of the source is one   *)
(* step of the model; the transport is the environment: a read returns a   *)
(* byte or raises VisaIOError (timeout).                                   *)
(*                                                                         *)
(* Currents are rationals amps = k/10, represented by the numerator k.     *)
(* Field values are kept in tenths of mT (the source divides by 10.0).     *)
(* Init is a controller whose transport is open (self.inst is set).        *)
(***************************************************************************)
EXTENDS Integers, Sequences, FiniteSets, TLC

(***************************************************************************)
(* Bounds of the model.                                                    *)
(***************************************************************************)
\* while the transport log is recorded, at most MaxDev reads of a call
\* deviate from the nominal reply (nominal: an ACK read gets 0x00, a POLL read
\* gets the expected byte, a CAPTURE read gets a byte)
MaxDev == 2

\* a current above the 16-bit range of the payload (203.0 A)
OverRangeTenths == {2030}
\* currents passed to set_current, in tenths of an ampere
AmpsInputs == {-20, 0, 1, 2, 40} \cup OverRangeTenths
\* currents passed to pulse
PulseInputs == {0, 10} \cup OverRangeTenths

\* _read_one_byte / _poll_for_byte return None on VisaIOError
None == -1

\* bytes the transport may deliver
AckNominal == {0}
AckOdd == {18}
PollNoise == {0}
CaptureBytes == {0, 1, 222}

(***************************************************************************)
(* current_map: the encoder, with Python's hex() string and its slicing.   *)
(***************************************************************************)
HexChars == <<"0","1","2","3","4","5","6","7","8","9","a","b","c","d","e","f">>

Abs(x) == IF x < 0 THEN -x ELSE x

RECURSIVE HexDigitsOf(_)
HexDigitsOf(n) ==
  IF n < 16 THEN <<HexChars[n + 1]>>
  ELSE Append(HexDigitsOf(n \div 16), HexChars[(n % 16) + 1])

\* hex(n) for n >= 0: "0x" followed by the digits
hex(n) == <<"0", "x">> \o HexDigitsOf(n)

\* s[-2:]
LastTwo(s) == IF Len(s) <= 2 THEN s ELSE SubSeq(s, Len(s) - 1, Len(s))

\* s[:-2]
DropLastTwo(s) == IF Len(s) <= 2 THEN <<>> ELSE SubSeq(s, 1, Len(s) - 2)

\* s.split('x')[1] for s = hex(n): what follows the only 'x'
AfterX(s) == SubSeq(s, 3, Len(s))

HexVal(c) == CHOOSE i \in 0..15 : HexChars[i + 1] = c

IsHexStr(s) == Len(s) > 0 /\ \A i \in 1..Len(s) : \E j \in 1..16 : HexChars[j] = s[i]

RECURSIVE HexValue(_)
HexValue(s) ==
  IF Len(s) = 0 THEN 0
  ELSE 16 * HexValue(SubSeq(s, 1, Len(s) - 1)) + HexVal(s[Len(s)])

\* int((1299-35)/(4.0-0.1)*current_amps) for current_amps = k/10 >= 0:
\* 1264/3.9 * k/10 = 1264*k/39, truncated
Counts(k) == ((1299 - 35) * k) \div (40 - 1)

\* what current_map raises when int(.., 16) rejects its string
ValueError == <<>>

current_map(current_amps) ==
  LET pos    == IF current_amps < 0 THEN 0 ELSE 1
      mapped == hex(Counts(Abs(current_amps)))
      low    == LastTwo(mapped)
      zeroth == DropLastTwo(AfterX(mapped))
  IN  IF ~IsHexStr(low) THEN ValueError
      ELSE <<(IF zeroth # <<>> THEN HexValue(zeroth) ELSE 0), HexValue(low), 0, pos>>

(***************************************************************************)
(* The two scripts, one entry per transport write or capture of the source.*)
(*   ACK     write b, _read_one_byte(), result discarded                   *)
(*   POLL    write b, _poll_for_byte(0x12)                                 *)
(*   WRITE   write b, no read                                              *)
(*   CAPTURE _read_one_byte() into byteN, return on None, else echo        *)
(***************************************************************************)
Step(b, m) == [b |-> b, m |-> m]

\* the start sequence with steps 4 and 5 exchanged
StartStepsSwapped(value_bytes_) ==
  << Step(100, "ACK"), Step(100, "ACK"), Step(30, "POLL"),
     Step(44, "ACK"), Step(100, "ACK"),
     Step(value_bytes_[1], "ACK"), Step(value_bytes_[2], "ACK"),
     Step(value_bytes_[3], "ACK"), Step(value_bytes_[4], "ACK"),
     Step(0, "POLL") >>

StartSteps(value_bytes_) ==
  << Step(100, "ACK"),              \* 0x64 1. Ready
     Step(100, "ACK"),              \* 0x64 2. Ready
     Step(30, "POLL"),              \* 0x1E 3. Start
     Step(100, "ACK"),              \* 0x64 4. Ready
     Step(44, "ACK"),               \* 0x2C 5. Set Value
     Step(value_bytes_[1], "ACK"),
     Step(value_bytes_[2], "ACK"),
     Step(value_bytes_[3], "ACK"),
     Step(value_bytes_[4], "ACK"),
     Step(0, "POLL") >>             \* 0x00 10. End Command

\* the stop sequence without the read that follows 0x4E
StopStepsUnpaced ==
  << Step(100, "ACK"), Step(43, "POLL"), Step(10, "WRITE"),
     Step(None, "CAPTURE"), Step(None, "CAPTURE"), Step(None, "CAPTURE"),
     Step(78, "WRITE"), Step(0, "WRITE"), Step(100, "ACK"), Step(130, "POLL") >>

StopSteps ==
  << Step(100, "ACK"),              \* 0x64 Ready Check
     Step(43, "POLL"),              \* 0x2B Stop Cmd
     Step(10, "WRITE"),             \* 0x0A The query
     Step(None, "CAPTURE"),         \* byte1
     Step(None, "CAPTURE"),         \* byte2
     Step(None, "CAPTURE"),         \* byte3
     Step(78, "ACK"),               \* 0x4E
     Step(0, "WRITE"),              \* 0x00 No response in log
     Step(100, "ACK"),              \* 0x64 Ready Check
     Step(130, "POLL") >>           \* 0x82 End Cmd

\* the byte both scripts poll for
PollExpected == 18

\* how many bytes the input buffer holds at most, and the bytes that arrive
\* late in it
MaxRx == 1
LateBytes == {18}

(***************************************************************************)
(* State.                                                                  *)
(***************************************************************************)
VARIABLES
  op,           \* the method the caller invoked: set_current, stop_and_query_field, pulse
  amps,         \* its argument, in tenths of an ampere
  pc,           \* idle, start (in _run_start_sequence), sleep (pulse's time.sleep),
                \* stop (in stop_and_query_field), returned, raised
  step,         \* index of the current step of the running script
  phase,        \* "w" before the step's write, "r" before its read, "e" before a capture's echo
  value_bytes,  \* set_current's payload
  response,     \* _poll_for_byte's local
  byte1, byte2, byte3,   \* stop_and_query_field's captures
  field,        \* pulse's local
  ret,          \* what the invoked method returned or raised
  log,          \* the transport operations of the current call, in order
  dev,          \* deviating reads so far in the current call
  tick,         \* parity of the number of transport operations of the current call
  recording,    \* whether the transport operations are recorded in log
  prev,         \* what is remembered of the call before, when both are stop_and_query_field
  rx,           \* the transport's input buffer: bytes that arrived and are not read yet
  stale         \* the captures of the current call that took a byte sent before its query

vars == <<op, amps, pc, step, phase, value_bytes, response, byte1, byte2, byte3,
          field, ret, log, dev, tick, recording, prev, rx, stale>>

Val(kind, val) == [kind |-> kind, val |-> val]
NoValue == Val("unset", 0)
RetNone == Val("None", 0)
QueryFailed == Val("Query Failed", 0)
RaisedValueError == Val("ValueError", 0)

W(b) == <<"w", b>>
R(v) == <<"r", v>>

IsWrite(e) == e[1] = "w"
IsRead(e) == e[1] = "r"
Reads(t) == SelectSeq(t, IsRead)

\* nothing is remembered of the call before
NoPrev == [failed |-> 0, ret |-> Val("unset", 0), log |-> <<>>]

\* the transport answers the reads of this call as it answered those of the
\* call before
Replaying == prev.log # <<>>
Replayed(e) ==
  LET k == Len(Reads(log)) + 1 IN
  k <= Len(Reads(prev.log)) /\ e = Reads(prev.log)[k]

\* a buffered byte: the byte, and whether the device sent it before the
\* query of the current call was written
Buffered(b, old) == <<b, old>>
MarkOld(q) == [i \in 1..Len(q) |-> Buffered(q[i][1], TRUE)]
MarkNew(q) == [i \in 1..Len(q) |-> Buffered(q[i][1], FALSE)]

InBuffer == {rx[i][1] : i \in DOMAIN rx}

\* read_bytes(1) takes the oldest buffered byte when there is one, and only
\* waits for the device (and may time out) when the buffer is empty
ReadTakes(e) ==
  /\ rx # <<>> => e[2] = Head(rx)[1]
  /\ Replaying => Replayed(e)
  /\ rx' = (IF rx # <<>> THEN Tail(rx) ELSE rx)
  /\ stale' = (IF rx # <<>> /\ Head(rx)[2] /\ pc = "stop" /\ step \in 4..6
                THEN stale \cup {step - 3} ELSE stale)

\* the bytes still unread when the query 0x0A is written were sent before it
WriteLeaves ==
  /\ rx' = (IF pc = "stop" /\ step = 3 /\ phase = "w" THEN MarkOld(rx) ELSE rx)
  /\ stale' = stale

\* one transport operation e takes place
Transport(e) ==
  /\ log' = (IF recording THEN Append(log, e) ELSE log)
  /\ tick' = 1 - tick
  /\ recording' = recording
  /\ prev' = prev
  /\ IF IsRead(e) THEN ReadTakes(e) ELSE WriteLeaves

\* a read may deviate from the nominal reply
MayDeviate == recording => dev < MaxDev
Deviate == dev' = (IF recording THEN dev + 1 ELSE dev)

Controller ==
  /\ op = "none" /\ amps = 0 /\ pc = "idle" /\ step = 0 /\ phase = "-"
  /\ value_bytes = <<>> /\ response = None
  /\ byte1 = None /\ byte2 = None /\ byte3 = None
  /\ field = NoValue /\ ret = NoValue /\ log = <<>> /\ dev = 0 /\ tick = 0
  /\ prev = NoPrev /\ rx = <<>> /\ stale = {}

Init == Controller /\ recording = TRUE

\* the same controller on a transport whose reads are unrestricted and
\* whose operations are not recorded
InitLive == Controller /\ recording = FALSE

\* the caller invokes a method only when no call is in progress
Callable == pc \in {"idle", "returned", "raised"}

Script == IF pc = "start" THEN StartSteps(value_bytes) ELSE StopSteps
InScript == pc \in {"start", "stop"}
Cur == Script[step]

FirstPhase(m) == IF m = "CAPTURE" THEN "r" ELSE "w"

(***************************************************************************)
(* Decoding, stop_and_query_field lines 165-174; the value is kept in      *)
(* tenths of mT.                                                           *)
(***************************************************************************)
raw_magnitude(b1, b2) == b1 * 256 + b2

\* a decoder with the sign flag read the other way round
final_value_inverted(b1, b2, b3) ==
  IF b3 = 0 THEN Val("field", -raw_magnitude(b1, b2))
  ELSE Val("field", raw_magnitude(b1, b2))

final_value(b1, b2, b3) ==
  IF b3 = 1 THEN Val("field", -raw_magnitude(b1, b2))
  ELSE Val("field", raw_magnitude(b1, b2))

(***************************************************************************)
(* Returns.                                                                *)
(***************************************************************************)
\* pulse stores the result of stop_and_query_field in field, prints it and
\* falls off the end of the function
PulseTail(v) == Val("None", 0)

\* stop_and_query_field returns v, to the caller or to pulse
StopReturns(v) ==
  /\ pc' = "returned" /\ step' = 0 /\ phase' = "-"
  /\ IF op = "pulse"
     THEN field' = v /\ ret' = PulseTail(v)
     ELSE field' = field /\ ret' = v

\* _run_start_sequence and set_current return None, to the caller or to pulse
StartReturns ==
  /\ step' = 0 /\ phase' = "-" /\ field' = field
  /\ IF op = "pulse"
     THEN pc' = "sleep" /\ ret' = ret
     ELSE pc' = "returned" /\ ret' = RetNone

\* control passes to the statement after the current step
GoNext ==
  IF step < Len(Script)
  THEN /\ pc' = pc /\ step' = step + 1 /\ phase' = FirstPhase(Script[step + 1].m)
       /\ field' = field /\ ret' = ret
  ELSE IF pc = "start" THEN StartReturns
       ELSE StopReturns(final_value(byte1, byte2, byte3))

(***************************************************************************)
(* Calls.                                                                  *)
(***************************************************************************)
Fresh ==
  /\ response' = None /\ byte1' = None /\ byte2' = None /\ byte3' = None
  /\ field' = NoValue /\ log' = <<>> /\ dev' = 0 /\ tick' = 0
  /\ recording' = recording
  /\ rx' = MarkNew(rx) /\ stale' = {}

\* set_current lines 124-125: encode, then enter _run_start_sequence
SetCurrentBody(a) ==
  LET vb == current_map(a) IN
  IF vb = ValueError
  THEN /\ value_bytes' = <<>> /\ pc' = "raised" /\ ret' = RaisedValueError
       /\ step' = 0 /\ phase' = "-"
  ELSE /\ value_bytes' = vb /\ pc' = "start" /\ ret' = NoValue
       /\ step' = 1 /\ phase' = "w"

set_current ==
  /\ Callable
  /\ \E a \in AmpsInputs :
       /\ op' = "set_current" /\ amps' = a
       /\ SetCurrentBody(a)
       /\ Fresh /\ prev' = NoPrev

pulse ==
  /\ Callable
  /\ \E a \in PulseInputs :
       /\ op' = "pulse" /\ amps' = a
       /\ SetCurrentBody(a)
       /\ Fresh /\ prev' = NoPrev

\* a stop_and_query_field that skips the ready check when the call before
\* was a stop_and_query_field too
StopEntryResumes ==
  /\ pc' = "stop" /\ phase' = "w"
  /\ step' = (IF op = "stop_and_query_field" /\ pc = "returned" THEN 2 ELSE 1)

\* the first statement of stop_and_query_field
StopEntry ==
  /\ pc' = "stop" /\ step' = 1 /\ phase' = "w"

stop_and_query_field ==
  /\ Callable
  /\ op' = "stop_and_query_field" /\ amps' = 0
  /\ StopEntry
  /\ value_bytes' = <<>> /\ ret' = NoValue
  /\ Fresh /\ prev' = NoPrev

\* a pulse that sends a ready check of its own before stopping
sleepThenReady ==
  /\ pc = "sleep"
  /\ StopEntry
  /\ Transport(W(100))
  /\ UNCHANGED <<op, amps, value_bytes, response, byte1, byte2, byte3, field, ret, dev>>

\* pulse line 195: time.sleep(duration_sec), then line 196
sleep ==
  /\ pc = "sleep"
  /\ StopEntry
  /\ UNCHANGED <<op, amps, value_bytes, response, byte1, byte2, byte3, field, ret, log, dev,
                 tick, recording, prev, rx, stale>>

(***************************************************************************)
(* Transport steps.                                                        *)
(***************************************************************************)
\* self.inst.write_raw(bytes([b])): bytes() rejects a value outside 0..255
write_raw ==
  /\ InScript /\ phase = "w"
  /\ IF Cur.b \in 0..255
     THEN /\ Transport(W(Cur.b))
          /\ IF Cur.m = "WRITE"
             THEN GoNext
             ELSE /\ phase' = "r"
                  /\ UNCHANGED <<pc, step, field, ret>>
     ELSE /\ pc' = "raised" /\ ret' = RaisedValueError
          /\ step' = 0 /\ phase' = "-"
          /\ UNCHANGED <<log, field, tick, recording, prev, rx, stale>>
  /\ UNCHANGED <<op, amps, value_bytes, response, byte1, byte2, byte3, dev>>

\* _read_one_byte of an ACK step: the result, byte or None, is discarded
ReadOutcome(v) ==
  /\ Transport(R(v))
  /\ GoNext

read_one_byte ==
  /\ InScript /\ phase = "r" /\ Cur.m = "ACK"
  /\ \/ \E v \in AckNominal : ReadOutcome(v) /\ dev' = dev
     \/ \E v \in AckOdd \cup {None} : MayDeviate /\ ReadOutcome(v) /\ Deviate
  /\ UNCHANGED <<op, amps, value_bytes, response, byte1, byte2, byte3>>

\* a poll that returns at the first byte, whatever it is
PollGotAny(v) ==
  /\ Transport(R(v))
  /\ response' = None /\ GoNext

\* one iteration of _poll_for_byte's loop: a byte arrives
PollGot(v) ==
  /\ Transport(R(v))
  /\ IF v = PollExpected
     THEN response' = None /\ GoNext
     ELSE response' = v /\ UNCHANGED <<pc, step, phase, field, ret>>

poll_read ==
  /\ InScript /\ phase = "r" /\ Cur.m = "POLL"
  /\ \/ PollGot(PollExpected) /\ dev' = dev
     \/ \E v \in PollNoise : MayDeviate /\ PollGot(v) /\ Deviate
  /\ UNCHANGED <<op, amps, value_bytes, byte1, byte2, byte3>>

\* a poll that lets the VisaIOError of its read escape
PollExceptEscapes ==
  /\ Transport(R(None))
  /\ response' = None
  /\ pc' = "raised" /\ ret' = Val("VisaIOError", 0)
  /\ step' = 0 /\ phase' = "-" /\ field' = field

\* a poll that reads again after a timeout
PollExceptRetries ==
  /\ Transport(R(None))
  /\ response' = None
  /\ UNCHANGED <<pc, step, phase, field, ret>>

\* _poll_for_byte's read raises VisaIOError: return None
PollExcept ==
  /\ Transport(R(None))
  /\ response' = None
  /\ GoNext

poll_timeout ==
  /\ InScript /\ phase = "r" /\ Cur.m = "POLL"
  /\ MayDeviate /\ Deviate
  /\ PollExcept
  /\ UNCHANGED <<op, amps, value_bytes, byte1, byte2, byte3>>

\* byteN = self._read_one_byte() returned a byte: keep it, echo next
CaptureGot(v) ==
  /\ Transport(R(v))
  /\ byte1' = (IF step = 4 THEN v ELSE byte1)
  /\ byte2' = (IF step = 5 THEN v ELSE byte2)
  /\ byte3' = (IF step = 6 THEN v ELSE byte3)
  /\ phase' = "e"
  /\ UNCHANGED <<pc, step, field, ret>>

capture_read ==
  /\ pc = "stop" /\ phase = "r" /\ Cur.m = "CAPTURE"
  /\ \E v \in CaptureBytes \cup InBuffer : CaptureGot(v)
  /\ UNCHANGED <<op, amps, value_bytes, response, dev>>

\* a capture that carries on with the script after a timeout
CaptureNoneContinues ==
  /\ Transport(R(None))
  /\ GoNext

\* a capture whose failure result carries the number of the capture
CaptureNoneNumbered ==
  /\ Transport(R(None))
  /\ StopReturns(Val("Query Failed", step - 3))

\* if byteN is None: return "Query Failed"
CaptureNone ==
  /\ Transport(R(None))
  /\ StopReturns(QueryFailed)

capture_timeout ==
  /\ pc = "stop" /\ phase = "r" /\ Cur.m = "CAPTURE"
  /\ MayDeviate /\ Deviate
  /\ CaptureNone
  /\ UNCHANGED <<op, amps, value_bytes, response, byte1, byte2, byte3>>

\* an echo that always sends the first capture
EchoByteFirst == byte1

\* self.inst.write_raw(bytes([byteN]))  # Echo
EchoByte == IF step = 4 THEN byte1 ELSE IF step = 5 THEN byte2 ELSE byte3

echo ==
  /\ pc = "stop" /\ phase = "e"
  /\ Transport(W(EchoByte))
  /\ GoNext
  /\ UNCHANGED <<op, amps, value_bytes, response, byte1, byte2, byte3, dev>>

Next ==
  \/ set_current
  \/ stop_and_query_field
  \/ pulse
  \/ sleep
  \/ write_raw
  \/ read_one_byte
  \/ poll_read
  \/ poll_timeout
  \/ capture_read
  \/ capture_timeout
  \/ echo

Spec == Init /\ [][Next]_vars

\* the steps of a call in progress; the program is single-threaded and every
\* transport read returns a byte or times out, so a call in progress always
\* takes its next step
Running ==
  \/ sleep \/ write_raw \/ read_one_byte \/ poll_read \/ poll_timeout
  \/ capture_read \/ capture_timeout \/ echo

LiveSpec == InitLive /\ [][Next]_vars /\ WF_vars(Running)

(***************************************************************************)
(* Two calls of stop_and_query_field in a row, the first remembered.       *)
(***************************************************************************)
\* the capture at which a returned stop_and_query_field gave up, 0 if none
FailedCapture ==
  IF byte1 = None THEN 1 ELSE IF byte2 = None THEN 2 ELSE IF byte3 = None THEN 3 ELSE 0

\* of the call that has returned: where it failed and what a failure returned;
\* and, when the transport is to answer the next call the same way, its
\* transport operations and its result
Remembered(replay) ==
  [failed |-> FailedCapture,
   ret    |-> IF replay \/ FailedCapture > 0 THEN ret ELSE NoValue,
   log    |-> IF replay THEN log ELSE <<>>]

\* the caller invokes stop_and_query_field again, directly after one returned
stop_and_query_field_again ==
  /\ recording /\ op = "stop_and_query_field" /\ pc = "returned"
  /\ op' = "stop_and_query_field" /\ amps' = 0
  /\ StopEntry
  /\ value_bytes' = <<>> /\ ret' = NoValue
  /\ Fresh
  /\ \E replay \in BOOLEAN : prev' = Remembered(replay)

TwiceNext == Next \/ stop_and_query_field_again

TwiceSpec == Init /\ [][TwiceNext]_vars

(***************************************************************************)
(* A device whose bytes may arrive when no read is waiting for them: after *)
(* a read has timed out, or in excess of what the step reads.  Nothing     *)
(* after connect() clears the input buffer, so such a byte stays there,    *)
(* over the end of a call too, until the next read takes it.               *)
(***************************************************************************)
device_sends ==
  /\ recording /\ InScript
  /\ Len(rx) < MaxRx
  /\ MayDeviate /\ Deviate
  /\ \E b \in LateBytes : rx' = Append(rx, Buffered(b, FALSE))
  /\ UNCHANGED <<op, amps, pc, step, phase, value_bytes, response, byte1, byte2, byte3,
                 field, ret, log, tick, recording, prev, stale>>

BufNext == Next \/ device_sends

BufSpec == Init /\ [][BufNext]_vars

(***************************************************************************)
(* Reading the transport log.                                              *)
(***************************************************************************)
RECURSIVE Writes(_)
\* the bytes written, in order
Writes(t) ==
  IF t = <<>> THEN <<>>
  ELSE IF IsWrite(Head(t)) THEN <<Head(t)[2]>> \o Writes(Tail(t))
       ELSE Writes(Tail(t))

IsPrefix(s, t) == Len(s) <= Len(t) /\ SubSeq(t, 1, Len(s)) = s

IsBytes(p) == Len(p) = 4 /\ \A i \in 1..4 : p[i] \in 0..255

\* a call of set_current is running or has returned
InSetCurrent == op = "set_current" /\ pc \in {"start", "returned"}

(***************************************************************************)
(* C1: for a payload of four bytes, set_current's start sequence writes    *)
(* exactly 0x64, 0x64, 0x1E, 0x64, 0x2C, p0, p1, p2, p3, 0x00 in that      *)
(* order, each once: what has been written is at every moment the first    *)
(* writes of that list, as many as steps were begun, and the whole list    *)
(* when set_current returns, whatever the reads returned.                  *)
(***************************************************************************)
C1_Expected(p) == <<100, 100, 30, 100, 44, p[1], p[2], p[3], p[4], 0>>

C1_StartWritesInOrder ==
  (recording /\ InSetCurrent /\ IsBytes(value_bytes)) =>
     /\ IsPrefix(Writes(log), C1_Expected(value_bytes))
     /\ pc = "start" => Len(Writes(log)) = (IF phase = "w" THEN step - 1 ELSE step)
     /\ pc = "returned" => Writes(log) = C1_Expected(value_bytes)

\* set_current(-2.0) returned after a timeout, with its ten writes made
C1_Witness ==
  /\ recording /\ op = "set_current" /\ pc = "returned" /\ amps = -20
  /\ Len(Writes(log)) = 10 /\ dev > 0

(***************************************************************************)
(* The captures of stop_and_query_field in the log: the query 0x0A is the  *)
(* third write of the call and the k-th capture read, if it was made, is   *)
(* the entry 2k-1 places after it.                                         *)
(***************************************************************************)
InStopCall == op = "stop_and_query_field" /\ pc \in {"stop", "returned"}
HasQuery(t) == \E q \in 1..Len(t) : t[q] = W(10)
QueryAt(t) == CHOOSE q \in 1..Len(t) : t[q] = W(10) /\ \A j \in 1..(q - 1) : t[j] # W(10)
CaptureAt(t, k) == QueryAt(t) + 2 * k - 1

(***************************************************************************)
(* C2: when the three capture reads of stop_and_query_field return b1, b2, *)
(* b3, the writes of the call are exactly 0x64, 0x2B, 0x0A, b1, b2, b3,    *)
(* 0x4E, 0x00, 0x64, 0x82; each capture read directly follows the query or *)
(* the previous echo, and each echo is the byte just read, written right   *)
(* after its read.                                                         *)
(***************************************************************************)
C2_CapturesEchoed ==
  (recording /\ InStopCall /\ HasQuery(log)) =>
     /\ \A k \in 1..3 :
          Len(log) >= CaptureAt(log, k) + 1 =>
             /\ IsRead(log[CaptureAt(log, k)])
             /\ log[CaptureAt(log, k) + 1] = W(log[CaptureAt(log, k)][2])
     /\ (pc = "returned" /\ Len(log) >= CaptureAt(log, 3) + 1) =>
          LET b1 == log[CaptureAt(log, 1)][2]
              b2 == log[CaptureAt(log, 2)][2]
              b3 == log[CaptureAt(log, 3)][2]
          IN  /\ Writes(log) = <<100, 43, 10, b1, b2, b3, 78, 0, 100, 130>>
              /\ <<byte1, byte2, byte3>> = <<b1, b2, b3>>
              /\ Writes(SubSeq(log, 1, QueryAt(log))) = <<100, 43, 10>>

\* a call that captured 0x00, 0xDE, 0x01 has returned
C2_Witness ==
  /\ recording /\ op = "stop_and_query_field" /\ pc = "returned"
  /\ <<byte1, byte2, byte3>> = <<0, 222, 1>>
  /\ Writes(log) = <<100, 43, 10, 0, 222, 1, 78, 0, 100, 130>>

(***************************************************************************)
(* C3: if the k-th capture read of stop_and_query_field times out, that    *)
(* read is the last transport operation of the call, the call has returned *)
(* the query failure, nothing was decoded, and the writes are 0x64, 0x2B,  *)
(* 0x0A and the k-1 echoes of the earlier captures: 0x4E, 0x00, 0x64 and   *)
(* 0x82 are not sent.                                                      *)
(***************************************************************************)
C3_EchoesBefore(t, k) == [j \in 1..(k - 1) |-> t[CaptureAt(t, j)][2]]

C3_CaptureTimeoutAborts ==
  (recording /\ InStopCall /\ HasQuery(log)) =>
     \A k \in 1..3 :
        (Len(log) >= CaptureAt(log, k) /\ log[CaptureAt(log, k)] = R(None)) =>
           /\ pc = "returned"
           /\ ret = QueryFailed
           /\ Len(log) = CaptureAt(log, k)
           /\ Writes(log) = <<100, 43, 10>> \o C3_EchoesBefore(log, k)
           /\ \A j \in 1..(k - 1) : log[CaptureAt(log, j)][2] # None

\* the third capture timed out after two bytes were captured and echoed
C3_Witness ==
  /\ recording /\ op = "stop_and_query_field" /\ pc = "returned"
  /\ ret = QueryFailed /\ byte1 = 0 /\ byte2 = 222 /\ byte3 = None
  /\ Writes(log) = <<100, 43, 10, 0, 222>>
  /\ log[Len(log)] = R(None)

(***************************************************************************)
(* C4: a timeout of the read of an ACK step or of a POLL step never aborts *)
(* a script: the step that reads the timeout passes control to the write   *)
(* of the next step, or ends the script normally when it was the last      *)
(* step; every timeout that is not a capture's is followed in the log by a *)
(* write; set_current returns only with ten writes made, and               *)
(* stop_and_query_field only after the read of its first capture.          *)
(***************************************************************************)
C4_TimeoutRead ==
  /\ recording /\ InScript /\ phase = "r" /\ Cur.m \in {"ACK", "POLL"}
  /\ log' = Append(log, R(None))

C4_Continues ==
  IF step < 10
  THEN pc' = pc /\ step' = step + 1 /\ phase' = "w"
  ELSE /\ pc' = (IF pc = "start" /\ op = "pulse" THEN "sleep" ELSE "returned")
       /\ ret'.kind \in (IF pc = "start" /\ op = "pulse" THEN {"unset"} ELSE {"None", "field"})

C4_Reached ==
  recording =>
     /\ \A i \in 1..(Len(log) - 1) : log[i] = R(None) => IsWrite(log[i + 1])
     /\ (op = "set_current" /\ pc = "returned") => Len(Writes(log)) = 10
     /\ (op = "stop_and_query_field" /\ pc = "returned") =>
          /\ HasQuery(log)
          /\ Len(log) > QueryAt(log)
          /\ IsRead(log[QueryAt(log) + 1])

C4_TimeoutTolerated == [](C4_Reached) /\ [][C4_TimeoutRead => C4_Continues]_vars

\* set_current returned after the read of its first ACK step and the poll of
\* its step 3 both timed out
C4_Witness ==
  /\ recording /\ op = "set_current" /\ pc = "returned"
  /\ Len(log) >= 6 /\ log[2] = R(None) /\ log[6] = R(None)
  /\ Len(Writes(log)) = 10

(***************************************************************************)
(* C5: a POLL step writes its byte once and then reads one byte at a time; *)
(* a byte other than 0x12 keeps it reading, the first 0x12 or the first    *)
(* timeout ends it, with nothing read or written by the step afterwards:   *)
(* after n other bytes and then 0x12 the step has made exactly n+1 reads   *)
(* and one write.                                                          *)
(***************************************************************************)
InPoll == InScript /\ phase = "r" /\ Cur.m = "POLL"

LastWrite(t) == CHOOSE k \in 1..Len(t) : IsWrite(t[k]) /\ \A j \in (k + 1)..Len(t) : IsRead(t[j])

\* while the step polls, the log ends with its one write and the other bytes
C5_Polling ==
  (recording /\ InPoll) =>
     /\ \E k \in 1..Len(log) : IsWrite(log[k])
     /\ log[LastWrite(log)] = W(Cur.b)
     /\ \A j \in (LastWrite(log) + 1)..Len(log) : log[j][2] \notin {18, None}

\* each step taken while polling is one read, and it ends the step exactly when
\* it is 0x12 or a timeout
C5_PollStep ==
  (recording /\ InPoll) =>
     \E v \in (0..255) \cup {None} :
        /\ log' = Append(log, R(v))
        /\ IF v \in {18, None}
           THEN (step' # step \/ pc' # pc) /\ phase' # "r"
           ELSE pc' = pc /\ step' = step /\ phase' = "r"

C5_PollStopsAtMatch == [](C5_Polling) /\ [][C5_PollStep]_vars

\* the poll of step 3 of the start sequence ended at 0x12 after two other bytes:
\* three reads, and step 4 is about to write
C5_Witness ==
  /\ recording /\ pc = "start" /\ step = 4 /\ phase = "w"
  /\ log = <<W(100), R(0), W(100), R(0), W(30), R(0), R(0), R(18)>>

(***************************************************************************)
(* C6: once begun, every call of set_current, stop_and_query_field or      *)
(* pulse eventually returns or raises, for every behaviour of a transport  *)
(* whose reads each return a byte or time out.  (As claimed: also when the *)
(* transport keeps delivering bytes other than 0x12 during a POLL step.)   *)
(***************************************************************************)
InCall == pc \in {"start", "sleep", "stop"}
Done == pc \in {"returned", "raised"}

C6_EveryCallReturns == InCall ~> Done

(***************************************************************************)
(* C6 as amended: every call eventually returns or raises unless a POLL    *)
(* step keeps receiving bytes other than 0x12: a call in progress always   *)
(* comes to its end or to a POLL step that has just read such a byte.      *)
(***************************************************************************)
C6_Chatter == InPoll /\ response \notin {None, 18}

C6_ReturnsUnlessChatter == InCall ~> (Done \/ C6_Chatter)

\* on the unrestricted transport, a pulse has run both scripts to the end
C6_Witness ==
  /\ ~recording /\ op = "pulse" /\ pc = "returned" /\ field.kind = "field"

(***************************************************************************)
(* C7: pulse returns to its caller what its stop_and_query_field step      *)
(* produced: the decoded field when the three captures succeeded, the      *)
(* failure marker otherwise.                                               *)
(***************************************************************************)
C7_PulseReturnsField ==
  (op = "pulse" /\ pc = "returned") => ret = field

(***************************************************************************)
(* C8: the transport operations of pulse(amps, d) are those of             *)
(* set_current(amps) followed by those of stop_and_query_field(), nothing  *)
(* before, between or after: the log of a finished pulse splits into a run *)
(* of the start sequence for amps' payload and a run of the stop sequence  *)
(* (the runs that finished calls of the two methods make), and is a run of *)
(* set_current alone when set_current raises.                              *)
(***************************************************************************)
RECURSIVE RunEnd(_, _, _, _)
\* where the run of the steps i.. of a script that starts at entry j of t ends
\* (the index after its last entry), 0 if t holds no such run from j.  A run
\* ends with the script, at a capture that timed out (the end of all), or
\* before a write that bytes() rejects.
RunEnd(steps, i, t, j) ==
  IF i > Len(steps) THEN j
  ELSE LET s == steps[i] IN
    IF s.m = "CAPTURE"
    THEN IF j > Len(t) \/ ~IsRead(t[j]) THEN 0
         ELSE IF t[j][2] = None THEN (IF j = Len(t) THEN j + 1 ELSE 0)
         ELSE IF j + 1 > Len(t) \/ t[j + 1] # W(t[j][2]) THEN 0
         ELSE RunEnd(steps, i + 1, t, j + 2)
    ELSE IF s.b \notin 0..255 THEN j
    ELSE IF j > Len(t) \/ t[j] # W(s.b) THEN 0
    ELSE CASE s.m = "WRITE" -> RunEnd(steps, i + 1, t, j + 1)
           [] s.m = "ACK" ->
                IF j + 1 > Len(t) \/ ~IsRead(t[j + 1]) THEN 0
                ELSE RunEnd(steps, i + 1, t, j + 2)
           [] s.m = "POLL" ->
                LET ends == {k \in (j + 1)..Len(t) :
                               /\ t[k] \in {R(18), R(None)}
                               /\ \A l \in (j + 1)..(k - 1) :
                                     IsRead(t[l]) /\ t[l][2] \notin {18, None}}
                IN  IF ends = {} THEN 0
                    ELSE RunEnd(steps, i + 1, t, (CHOOSE k \in ends : TRUE) + 1)

SetCurrentRaises(a) == current_map(a) = ValueError \/ ~IsBytes(current_map(a))

\* where the run of set_current(a) that starts at entry j of t ends
SetCurrentRunEnd(t, j, a) ==
  IF current_map(a) = ValueError THEN j
  ELSE RunEnd(StartSteps(current_map(a)), 1, t, j)

StopRunEnd(t, j) == RunEnd(StopSteps, 1, t, j)

C8_PulseIsComposition ==
  (recording /\ Done) =>
     /\ op = "set_current" => SetCurrentRunEnd(log, 1, amps) = Len(log) + 1
     /\ op = "stop_and_query_field" => StopRunEnd(log, 1) = Len(log) + 1
     /\ op = "pulse" =>
          IF SetCurrentRaises(amps) THEN SetCurrentRunEnd(log, 1, amps) = Len(log) + 1
          ELSE LET k == SetCurrentRunEnd(log, 1, amps)
               IN  k # 0 /\ StopRunEnd(log, k) = Len(log) + 1

\* pulse(1.0, d) has returned after the ten writes of each script
C8_Witness ==
  /\ recording /\ op = "pulse" /\ pc = "returned" /\ amps = 10
  /\ field.kind = "field" /\ Len(Writes(log)) = 20

(***************************************************************************)
(* C9: the encoder reproduces the calibration fixtures: the payload of     *)
(* 0.1 A has low byte 35, the payload of 4.0 A is 0x05 0x13 0x00 0x01 and  *)
(* the payload of -2.0 A is 0x02 0x29 0x00 0x00.                           *)
(***************************************************************************)
Encoded == op = "set_current" /\ log = <<>> /\ pc \in {"start", "raised"}

C9_CalibrationFixtures ==
  (recording /\ Encoded) =>
     /\ amps = 1 => (Len(value_bytes) = 4 /\ value_bytes[2] = 35)
     /\ amps = 40 => value_bytes = <<5, 19, 0, 1>>
     /\ amps = -20 => value_bytes = <<2, 41, 0, 0>>

(***************************************************************************)
(* C10: for every current of the grid in [-4.0, 4.0] the encoder returns   *)
(* high, low, 0x00, sign with counts = round(abs(amps) * 1264/3.9),        *)
(* low = counts & 0xFF and high = counts >> 8.                             *)
(***************************************************************************)
\* round(n/d) for n >= 0, d > 0 (ties do not occur on the grid)
Round(n, d) == (2 * n + d) \div (2 * d)

C10_Counts(k) == Round(1264 * Abs(k), 39)

C10_ArithmeticSplit ==
  (recording /\ Encoded /\ amps \in -40..40) =>
     value_bytes = << C10_Counts(amps) \div 256, C10_Counts(amps) % 256, 0,
                      IF amps >= 0 THEN 1 ELSE 0 >>

(***************************************************************************)
(* C11: the encoder has no error outcome: for every current, 0.0 and the   *)
(* currents of fewer than 16 counts included, current_map returns a        *)
(* payload of four elements and set_current enters the start sequence      *)
(* without raising.                                                        *)
(***************************************************************************)
C11_EncoderNeverRaises ==
  (recording /\ Encoded) => (pc = "start" /\ Len(value_bytes) = 4)

(***************************************************************************)
(* C12: for every current in [-4.0, 4.0] the payload's sign byte (index 3) *)
(* is 0x01 exactly when amps >= 0 and 0x00 exactly when amps < 0, and its  *)
(* reserved byte (index 2) is 0x00.                                        *)
(***************************************************************************)
C12_SignByte ==
  (recording /\ Encoded /\ amps \in -40..40) =>
     /\ Len(value_bytes) = 4
     /\ value_bytes[4] = 1 <=> amps >= 0
     /\ value_bytes[4] = 0 <=> amps < 0
     /\ value_bytes[3] = 0

(***************************************************************************)
(* C13: a stop_and_query_field that captured b1, b2, b3 returns the field  *)
(* whose value in tenths of mT is (b1 << 8) | b2, negated exactly when b3  *)
(* is 0x01 and not negated for any other b3, whatever the ACK and POLL     *)
(* reads returned; 0x00 0xDE 0x00 gives 22.2 and 0x00 0xDE 0x01 gives      *)
(* -22.2.                                                                  *)
(***************************************************************************)
C13_Captured(k) == log[CaptureAt(log, k)][2]

C13_DecodedField ==
  (recording /\ op = "stop_and_query_field" /\ pc = "returned"
     /\ HasQuery(log) /\ Len(log) >= CaptureAt(log, 3) + 1) =>
     LET magnitude == C13_Captured(1) * 256 + C13_Captured(2) IN
     /\ ret.kind = "field"
     /\ C13_Captured(3) = 1 => ret.val = 0 - magnitude
     /\ C13_Captured(3) # 1 => ret.val = magnitude
     /\ <<C13_Captured(1), C13_Captured(2), C13_Captured(3)>> = <<0, 222, 0>> => ret.val = 222
     /\ <<C13_Captured(1), C13_Captured(2), C13_Captured(3)>> = <<0, 222, 1>> => ret.val = -222

\* -22.2 mT was returned by a call whose first ACK read got 0x12 and whose
\* first poll timed out
C13_Witness ==
  /\ recording /\ op = "stop_and_query_field" /\ pc = "returned"
  /\ ret = Val("field", -222)
  /\ log[2] = R(18) /\ log[4] = R(None)

(***************************************************************************)
(* C16: in set_current and in stop_and_query_field at least one transport  *)
(* read is issued between any two consecutive transport writes.            *)
(***************************************************************************)
C16_Paced == op \in {"set_current", "stop_and_query_field"}

C16_ReadBetweenWrites ==
  (recording /\ C16_Paced) =>
     \A i \in 1..(Len(log) - 1) : ~(IsWrite(log[i]) /\ IsWrite(log[i + 1]))

(***************************************************************************)
(* C16 as amended: in set_current every write is followed by a read before *)
(* the next write; in stop_and_query_field so is every write but two: the  *)
(* echo of byte3, directly followed by the write of 0x4E, and the write of *)
(* 0x00 after it, directly followed by the write of 0x64.                  *)
(***************************************************************************)
C16_ReadBetweenWritesButTwo ==
  (recording /\ C16_Paced) =>
     \A i \in 1..(Len(log) - 1) :
        (IsWrite(log[i]) /\ IsWrite(log[i + 1])) =>
           /\ op = "stop_and_query_field" /\ HasQuery(log)
           /\ \/ i = CaptureAt(log, 3) + 1 /\ log[i + 1] = W(78)
              \/ i = CaptureAt(log, 3) + 4 /\ log[i] = W(0) /\ log[i + 1] = W(100)

\* a stop_and_query_field has returned a field, both unpaced writes made
C16_Witness ==
  /\ recording /\ op = "stop_and_query_field" /\ pc = "returned" /\ ret.kind = "field"
  /\ log[CaptureAt(log, 3) + 2] = W(78)
  /\ log[CaptureAt(log, 3) + 5] = W(100)

(***************************************************************************)
(* The scripts of src/best_test.py: run_start_sequence and                 *)
(* stop_and_query_field, with its decoding.                                *)
(***************************************************************************)
bt_run_start_sequence(value_bytes_) ==
  << Step(100, "ACK"),              \* Step 1: Ready Check
     Step(100, "ACK"),              \* Step 2: Ready Check
     Step(30, "POLL"),              \* Step 3: Start Cmd
     Step(100, "ACK"),              \* Step 4: Ready Check
     Step(44, "ACK"),               \* Step 5: "Set Value" cmd
     Step(value_bytes_[1], "ACK"),  \* Step 6
     Step(value_bytes_[2], "ACK"),  \* Step 7
     Step(value_bytes_[3], "ACK"),  \* Step 8
     Step(value_bytes_[4], "ACK"),  \* Step 9
     Step(0, "POLL") >>             \* Step 10: End Command

bt_stop_and_query_field ==
  << Step(100, "ACK"),              \* Ready Check
     Step(43, "POLL"),              \* Stop Cmd
     Step(10, "WRITE"),             \* The query command
     Step(None, "CAPTURE"),         \* Echo byte 1
     Step(None, "CAPTURE"),         \* Echo byte 2
     Step(None, "CAPTURE"),         \* Echo byte 3 (sign?)
     Step(78, "ACK"),
     Step(0, "WRITE"),              \* No response in log
     Step(100, "ACK"),              \* Ready Check
     Step(130, "POLL") >>           \* End Cmd

\* final_value = scaled_magnitude if byte3 == 0x00 else -scaled_magnitude
bt_final_value(b1, b2, b3) ==
  IF b3 = 0 THEN Val("field", b1 * 256 + b2)
  ELSE Val("field", -(b1 * 256 + b2))

(***************************************************************************)
(* C17: the two implementations are duplicates: the scripts of the         *)
(* controller are the scripts of best_test.py, step for step, and for      *)
(* every captured triple both decode the same field.                       *)
(***************************************************************************)
C17_Duplicates ==
  recording =>
     /\ pc = "start" => Script = bt_run_start_sequence(value_bytes)
     /\ pc = "stop" => Script = bt_stop_and_query_field
     /\ (op = "stop_and_query_field" /\ pc = "returned" /\ ret.kind = "field") =>
           ret = bt_final_value(byte1, byte2, byte3)

(***************************************************************************)
(* C18: the payload causes no partial execution of the start sequence: for *)
(* every current, out of range or not, a set_current that has ended made   *)
(* no transport write at all or all ten writes of the start sequence.      *)
(***************************************************************************)
C18_AllOrNothing ==
  (recording /\ op = "set_current" /\ Done) => Len(Writes(log)) \in {0, 10}

(***************************************************************************)
(* C14: the query-failure result identifies which capture timed out: of    *)
(* two stop_and_query_field calls in a row that failed at different        *)
(* captures, the results differ.                                           *)
(***************************************************************************)
C14_BothFailed ==
  /\ recording /\ op = "stop_and_query_field" /\ pc = "returned"
  /\ prev.failed > 0 /\ FailedCapture > 0

C14_FailureIdentifiesCapture ==
  (C14_BothFailed /\ prev.failed # FailedCapture) => ret # prev.ret

(***************************************************************************)
(* C14 as amended: a stop_and_query_field returns the query-failure result *)
(* exactly when one of its captures timed out, and the result is the same  *)
(* "Query Failed" whichever capture it was: two calls in a row that failed *)
(* return equal results.                                                   *)
(***************************************************************************)
C14_FailureIsOneResult ==
  /\ (recording /\ op = "stop_and_query_field" /\ pc = "returned") =>
        /\ FailedCapture > 0 <=> ret.kind = "Query Failed"
        /\ FailedCapture > 0 => ret = QueryFailed
  /\ C14_BothFailed => ret = prev.ret

\* a call failed at its third capture after a call that failed at its first
C14_Witness == C14_BothFailed /\ prev.failed = 1 /\ FailedCapture = 3

(***************************************************************************)
(* C15: stop_and_query_field keeps no state between calls: called directly *)
(* after a stop_and_query_field that returned, on a transport that answers *)
(* the reads as it answered those of that call, it starts at the first     *)
(* step of the script, performs the same writes and reads in the same      *)
(* order, and returns the same result.                                     *)
(***************************************************************************)
C15_SameAgain ==
  (recording /\ Replaying) =>
     /\ op = "stop_and_query_field"
     /\ IsPrefix(log, prev.log)
     /\ (pc = "stop" /\ log = <<>>) => (step = 1 /\ phase = "w")
     /\ pc = "stop" => Script = StopSteps
     /\ pc = "returned" => (log = prev.log /\ ret = prev.ret)

\* a second call has returned a field after a timeout among its reads
C15_Witness ==
  /\ recording /\ Replaying /\ pc = "returned"
  /\ ret.kind = "field" /\ dev > 0 /\ Len(log) = 18

(***************************************************************************)
(* C19: the three bytes stop_and_query_field captures, echoes and decodes  *)
(* are the device's response to the query 0x0A: no capture takes a byte    *)
(* that the device sent before the controller wrote 0x0A.                  *)
(***************************************************************************)
C19_CapturesAnswerQuery ==
  (recording /\ op \in {"stop_and_query_field", "pulse"}) => stale = {}

====
